---- MODULE Spec2Model ----
(***************************************************************************)
(* A model of bz4.googlecontacts.cpp: the CSV tokenizer parse_csv_line,    *)
(* the CSV encoder format_csv_field, the splitter splitGroupLastName and   *)
(* the conversion loop of main.                                            *)
(*                                                                         *)
(* A std::string is a sequence of characters, a character a one-character  *)
(* string.  Positions are 1-based here and 0-based in the source; npos is  *)
(* 0.  Three specifications share the variables:                           *)
(*   SpecFn   one call of each helper function on a bounded string,        *)
(*   SpecRow  one data row through check, mapping, writing, re-reading,    *)
(*   Spec     a whole run of main over a bounded input file.               *)
(***************************************************************************)
EXTENDS Naturals, Sequences, FiniteSets

VARIABLES
    pc,                   \* position in main, or in the call under study
    \* ---- main
    argc,                 \* main's argc
    contact_group_label,  \* the label read from std::cin
    input_status,         \* input_file: "unopened", "open", "failed", "closed"
    output_status,        \* output_file: "unopened", "open", "failed", "closed"
    input_file,           \* the lines of the input file
    output_file,          \* the lines written to the output file
    is_first_line,
    line_number,
    processed_count,
    branch,               \* history: the branch of the loop body each line read took
    reported,             \* the count printed at the end, as <<count>>, or << >>
    exit_code,            \* main's return value, as <<code>>, or << >> while running
    \* ---- one row
    input_fields,
    output_fields,
    out_line,             \* the data line written for the row
    \* ---- one call of a helper
    field,                \* the argument string
    escaped_field,        \* format_csv_field's result
    encoded,              \* whether the line being scanned is escaped_field
    line,                 \* parse_csv_line's argument
    pos,                  \* the read position of ss
    in_quotes,
    field_buffer,
    fields,
    group,
    lastName

mainVars == <<argc, contact_group_label, input_status, output_status, input_file,
              output_file, is_first_line, line_number, processed_count, branch,
              reported, exit_code>>
rowVars == <<input_fields, output_fields, out_line>>
scanVars == <<line, pos, in_quotes, field_buffer, fields>>
fnVars == <<field, escaped_field, encoded, group, lastName>>
vars == <<pc, mainVars, rowVars, scanVars, fnVars>>

\* ------------------------------------------------------------ characters

Quote == "\""
Comma == ","
Space == " "
Newline == "\n"

Range(s) == {s[k] : k \in 1..Len(s)}

\* All strings over alphabet of length at most n.
StringsUpTo(alphabet, n) == UNION {[1..k -> alphabet] : k \in 0..n}

\* ------------------------------------------------------ parse_csv_line

\* The locals of parse_csv_line before the loop.
ScanInit == [pos |-> 1, in_quotes |-> FALSE, field_buffer |-> <<>>, fields |-> <<>>]

\* ss.peek() == '"': false at the end of the stream.
PeekIsQuote(ln, p) == p < Len(ln) /\ ln[p + 1] = Quote

\* One iteration of while (ss.get(c)), c == ln[s.pos].
ScanStep(ln, s) ==
    LET c == ln[s.pos] IN
    IF c = Quote
    THEN IF PeekIsQuote(ln, s.pos)
         THEN [s EXCEPT !.field_buffer = Append(@, Quote), !.pos = @ + 2]
         ELSE [s EXCEPT !.in_quotes = ~@, !.pos = @ + 1]
    ELSE IF c = Comma /\ ~s.in_quotes
         THEN [s EXCEPT !.fields = Append(@, s.field_buffer),
                        !.field_buffer = <<>>, !.pos = @ + 1]
         ELSE [s EXCEPT !.field_buffer = Append(@, c), !.pos = @ + 1]

RECURSIVE ScanAll(_, _)
ScanAll(ln, s) ==
    IF s.pos > Len(ln)
    THEN Append(s.fields, s.field_buffer)
    ELSE ScanAll(ln, ScanStep(ln, s))

parse_csv_line(ln) == ScanAll(ln, ScanInit)

\* ---------------------------------------------------- format_csv_field

\* field.find(',') != npos || field.find('"') != npos || field.find('\n') != npos
NeedsEscaping(f) == \E k \in 1..Len(f) : f[k] \in {Comma, Quote, Newline}

\* for (char c : field), from position k on, appended to acc.
RECURSIVE EscapeLoopPlain(_, _, _)
EscapeLoopPlain(f, k, acc) ==
    IF k > Len(f) THEN acc ELSE EscapeLoopPlain(f, k + 1, Append(acc, f[k]))

RECURSIVE EscapeLoop(_, _, _)
EscapeLoop(f, k, acc) ==
    IF k > Len(f)
    THEN acc
    ELSE EscapeLoop(f, k + 1,
                    IF f[k] = Quote THEN acc \o <<Quote, Quote>> ELSE Append(acc, f[k]))

format_csv_field(f) ==
    IF NeedsEscaping(f)
    THEN Append(EscapeLoop(f, 1, <<Quote>>), Quote)
    ELSE f

\* -------------------------------------------------- splitGroupLastName

\* s.find(ch): the first position of ch, or 0.
Find(s, ch) ==
    IF ch \in Range(s)
    THEN CHOOSE k \in 1..Len(s) : s[k] = ch /\ \A j \in 1..(k - 1) : s[j] # ch
    ELSE 0

\* s.find_last_not_of(ch): the last position not holding ch, or 0.
FindLastNotOf(s, ch) ==
    IF \E k \in 1..Len(s) : s[k] # ch
    THEN CHOOSE k \in 1..Len(s) : s[k] # ch /\ \A j \in (k + 1)..Len(s) : s[j] = ch
    ELSE 0

\* s.find_first_not_of(ch, from): the first position >= from not holding ch, or 0.
FindFirstNotOf(s, ch, from) ==
    IF \E k \in from..Len(s) : s[k] # ch
    THEN CHOOSE k \in from..Len(s) : s[k] # ch /\ \A j \in from..(k - 1) : s[j] = ch
    ELSE 0

splitGroupLastNameNoSkip(combined) ==
    LET first_space == Find(combined, Space) IN
    IF combined = <<>> \/ first_space = 0
    THEN [group |-> <<>>, lastName |-> combined]
    ELSE [group |-> SubSeq(combined, 1, first_space - 1),
          lastName |-> SubSeq(combined, first_space + 1, Len(combined))]

splitGroupLastName(combined) ==
    IF combined = <<>>
    THEN [group |-> <<>>, lastName |-> <<>>]
    ELSE LET first_space == Find(combined, Space) IN
         IF first_space # 0
         THEN LET cut == SubSeq(combined, 1, first_space - 1)
                  last_char_group == FindLastNotOf(cut, Space)
                  last_name_start == FindFirstNotOf(combined, Space, first_space)
              IN  [group |-> IF last_char_group # 0
                             THEN SubSeq(cut, 1, last_char_group)
                             ELSE <<>>,
                   lastName |-> IF last_name_start # 0
                                THEN SubSeq(combined, last_name_start, Len(combined))
                                ELSE <<>>]
         ELSE [group |-> <<>>, lastName |-> combined]

\* --------------------------------------------------------------- bounds

\* The longest argument string of a helper call (SpecFn).
MaxLen == 4

\* The characters of the argument strings.
Chars == {"a", Comma, Quote, Space, Newline}

\* ------------------------------------------- SpecFn: one call per helper

MainIdle ==
    /\ argc = 0
    /\ contact_group_label = <<>>
    /\ input_status = "unopened"
    /\ output_status = "unopened"
    /\ input_file = <<>>
    /\ output_file = <<>>
    /\ is_first_line = TRUE
    /\ line_number = 0
    /\ processed_count = 0
    /\ branch = <<>>
    /\ reported = <<>>
    /\ exit_code = <<>>

RowIdle ==
    /\ input_fields = <<>>
    /\ output_fields = <<>>
    /\ out_line = <<>>

ScanIdle ==
    /\ line = <<>>
    /\ pos = 1
    /\ in_quotes = FALSE
    /\ field_buffer = <<>>
    /\ fields = <<>>

FnIdle ==
    /\ field = <<>>
    /\ escaped_field = <<>>
    /\ encoded = FALSE
    /\ group = <<>>
    /\ lastName = <<>>

InitFn ==
    /\ pc = "call"
    /\ field \in StringsUpTo(Chars, MaxLen)
    /\ escaped_field = <<>>
    /\ encoded = FALSE
    /\ group = <<>>
    /\ lastName = <<>>
    /\ MainIdle
    /\ RowIdle
    /\ ScanIdle

\* escaped_field = format_csv_field(field)
CallFormat ==
    /\ pc = "call"
    /\ escaped_field' = format_csv_field(field)
    /\ pc' = "formatted"
    /\ UNCHANGED <<mainVars, rowVars, scanVars, field, encoded, group, lastName>>

\* splitGroupLastName(field, group, lastName)
CallSplit ==
    /\ pc = "call"
    /\ LET r == splitGroupLastName(field) IN
       /\ group' = r.group
       /\ lastName' = r.lastName
    /\ pc' = "split"
    /\ UNCHANGED <<mainVars, rowVars, scanVars, field, escaped_field, encoded>>

\* Entry of parse_csv_line, on the raw string or on the encoder's result.
StartScan ==
    /\ pc \in {"call", "formatted"}
    /\ encoded' = (pc = "formatted")
    /\ line' = IF pc = "formatted" THEN escaped_field ELSE field
    /\ pos' = ScanInit.pos
    /\ in_quotes' = ScanInit.in_quotes
    /\ field_buffer' = ScanInit.field_buffer
    /\ fields' = ScanInit.fields
    /\ pc' = "scan"
    /\ UNCHANGED <<mainVars, rowVars, field, escaped_field, group, lastName>>

\* One iteration of parse_csv_line's loop.
ScanChar ==
    /\ pc = "scan"
    /\ pos <= Len(line)
    /\ LET s == ScanStep(line, [pos |-> pos, in_quotes |-> in_quotes,
                                field_buffer |-> field_buffer, fields |-> fields])
       IN  /\ pos' = s.pos
           /\ in_quotes' = s.in_quotes
           /\ field_buffer' = s.field_buffer
           /\ fields' = s.fields
    /\ UNCHANGED <<pc, mainVars, rowVars, fnVars, line>>

\* The end of the stream: the last field is pushed and the vector returned.
ScanEnd ==
    /\ pc = "scan"
    /\ pos > Len(line)
    /\ fields' = Append(fields, field_buffer)
    /\ pc' = "parsed"
    /\ UNCHANGED <<mainVars, rowVars, fnVars, line, pos, in_quotes, field_buffer>>

NextFn == CallFormat \/ CallSplit \/ StartScan \/ ScanChar \/ ScanEnd

SpecFn == InitFn /\ [][NextFn]_vars

\* ----------------------------------------------------- main: one row

NUM_OUTPUT_COLUMNS == 23
INPUT_IDX_FIRSTNAME == 2
INPUT_IDX_GROUPLASTNAME == 3
INPUT_IDX_EMAILLOGIN == 4
INPUT_IDX_EMAILCREATED == 5
INPUT_IDX_PHONE == 6
INPUT_NUM_COLUMNS_EXPECTED == 7

\* v[i] of a std::vector, i counted from 0.
At(v, i) == v[i + 1]

\* input_fields.size() < INPUT_NUM_COLUMNS_EXPECTED
TooFewColumns(row) == Len(row) < INPUT_NUM_COLUMNS_EXPECTED

\* The body of the try block up to the last assignment: output_fields.
MapRowNoSwap(row, label) ==
    LET s == splitGroupLastName(At(row, INPUT_IDX_GROUPLASTNAME))
        empty == [k \in 0..(NUM_OUTPUT_COLUMNS - 1) |-> <<>>]
        filled == [empty EXCEPT
                     ![0] = At(row, INPUT_IDX_FIRSTNAME),
                     ![2] = IF s.group # <<>>
                            THEN s.group \o <<Space>> \o s.lastName
                            ELSE s.lastName,
                     ![16] = label,
                     ![18] = At(row, INPUT_IDX_EMAILLOGIN),
                     ![20] = At(row, INPUT_IDX_EMAILCREATED),
                     ![22] = At(row, INPUT_IDX_PHONE)]
    IN  [k \in 1..NUM_OUTPUT_COLUMNS |-> filled[k - 1]]

MapRow(row, label) ==
    LET s == splitGroupLastName(At(row, INPUT_IDX_GROUPLASTNAME))
        empty == [k \in 0..(NUM_OUTPUT_COLUMNS - 1) |-> <<>>]
        filled == [empty EXCEPT
                     ![0] = At(row, INPUT_IDX_FIRSTNAME),
                     ![2] = IF s.group # <<>>
                            THEN s.group \o <<Space>> \o s.lastName
                            ELSE s.lastName,
                     ![16] = label,
                     ![18] = At(row, INPUT_IDX_EMAILCREATED),
                     ![20] = At(row, INPUT_IDX_EMAILLOGIN),
                     ![22] = At(row, INPUT_IDX_PHONE)]
    IN  [k \in 1..NUM_OUTPUT_COLUMNS |-> filled[k - 1]]

\* The writing loop without the encoder.
RECURSIVE WriteFieldsRaw(_, _)
WriteFieldsRaw(out, i) ==
    IF i > Len(out)
    THEN <<>>
    ELSE out[i] \o (IF i < Len(out) THEN <<Comma>> ELSE <<>>) \o WriteFieldsRaw(out, i + 1)

\* for (size_t i = 0; i < output_fields.size(); ++i): the text written from
\* field i on (i counted from 1), without the closing "\n".
RECURSIVE WriteFields(_, _)
WriteFields(out, i) ==
    IF i > Len(out)
    THEN <<>>
    ELSE format_csv_field(out[i])
            \o (IF i < Len(out) THEN <<Comma>> ELSE <<>>)
            \o WriteFields(out, i + 1)

\* The data line of a row, without its "\n".
WriteRow(out) == WriteFields(out, 1)

\* ------------------------------------------------ SpecRow: one data row

\* The longest value of the first-name and the group/last-name fields (SpecRow).
MaxFieldLen == 2

\* std::getline strips the newline: a field and the label hold none.
FieldChars == {"a", Comma, Quote, Space}

FieldVals == StringsUpTo(FieldChars, MaxFieldLen)

\* The group/last-name field also takes longer values: a group and a last
\* name, with one space and with several, with a quote and a comma.
GroupLastVals ==
    FieldVals \cup { <<"g", Space, "p">>,
                     <<"g", Space, Space, "p", Space, "q">>,
                     <<"g", Comma, Space, Quote, "p", Quote>> }

\* The other fields of a row and the label.
Profiles ==
    { [ts |-> <<>>, role |-> <<"r">>, login |-> <<"l">>, created |-> <<"n">>,
       phone |-> <<"7">>, label |-> <<"2">>, extra |-> <<>>],
      [ts |-> <<"t">>, role |-> <<Quote>>, login |-> <<"l">>, created |-> <<"n">>,
       phone |-> <<"7">>, label |-> <<"2">>, extra |-> <<<<"x">>, <<Comma>>>>],
      [ts |-> <<>>, role |-> <<>>, login |-> <<"l", Comma>>, created |-> <<Quote, "n">>,
       phone |-> <<Quote>>, label |-> <<Comma, Quote>>, extra |-> <<>>],
      [ts |-> <<>>, role |-> <<>>, login |-> <<>>, created |-> <<>>,
       phone |-> <<>>, label |-> <<>>, extra |-> <<>>] }

RowOf(p, first, grouplast) ==
    <<p.ts, p.role, first, grouplast, p.login, p.created, p.phone>> \o p.extra

InitRow ==
    /\ pc = "row"
    /\ \E p \in Profiles, first \in FieldVals, grouplast \in GroupLastVals,
          cut \in {INPUT_NUM_COLUMNS_EXPECTED - 1, INPUT_NUM_COLUMNS_EXPECTED + 2} :
          /\ input_fields = SubSeq(RowOf(p, first, grouplast), 1,
                                   IF cut < Len(RowOf(p, first, grouplast))
                                   THEN cut ELSE Len(RowOf(p, first, grouplast)))
          /\ contact_group_label = p.label
    /\ output_fields = <<>>
    /\ out_line = <<>>
    /\ argc = 0
    /\ input_status = "unopened"
    /\ output_status = "unopened"
    /\ input_file = <<>>
    /\ output_file = <<>>
    /\ is_first_line = FALSE
    /\ line_number = 0
    /\ processed_count = 0
    /\ branch = <<>>
    /\ reported = <<>>
    /\ exit_code = <<>>
    /\ ScanIdle
    /\ FnIdle

\* The row has too few columns: a warning, and on to the next line.
RowReject ==
    /\ pc = "row"
    /\ TooFewColumns(input_fields)
    /\ pc' = "rejected"
    /\ UNCHANGED <<mainVars, rowVars, scanVars, fnVars>>

\* The row is mapped to its 23 output fields.
RowMap ==
    /\ pc = "row"
    /\ ~TooFewColumns(input_fields)
    /\ output_fields' = MapRow(input_fields, contact_group_label)
    /\ pc' = "mapped"
    /\ UNCHANGED <<mainVars, scanVars, fnVars, input_fields, out_line>>

\* The output fields are encoded and written as one line.
RowWrite ==
    /\ pc = "mapped"
    /\ out_line' = WriteRow(output_fields)
    /\ processed_count' = processed_count + 1
    /\ pc' = "written"
    /\ UNCHANGED <<argc, contact_group_label, input_status, output_status, input_file,
                   output_file, is_first_line, line_number, branch, reported, exit_code,
                   scanVars, fnVars, input_fields, output_fields>>

\* The written line is read back by parse_csv_line.
RowReread ==
    /\ pc = "written"
    /\ line' = out_line
    /\ fields' = parse_csv_line(out_line)
    /\ pc' = "reread"
    /\ UNCHANGED <<mainVars, rowVars, fnVars, pos, in_quotes, field_buffer>>

NextRow == RowReject \/ RowMap \/ RowWrite \/ RowReread

SpecRow == InitRow /\ [][NextRow]_vars

\* ------------------------------------------------------ Spec: main

\* The largest argc tried (the program name counts as one).
MaxArgc == 4

\* The longest input file, in lines.
MaxLines == 4

\* fields joined by commas, as a line of text.
RECURSIVE JoinComma(_)
JoinComma(toks) ==
    IF toks = <<>>
    THEN <<>>
    ELSE IF Len(toks) = 1
         THEN toks[1]
         ELSE toks[1] \o <<Comma>> \o JoinComma(Tail(toks))

\* The three bytes of the byte order mark, as one character.
BOM == "\\xEF\\xBB\\xBF"

\* output_header, each column name as one character.
output_header ==
    JoinComma(<< <<"First Name">>, <<"Middle Name">>, <<"Last Name">>,
                 <<"Phonetic First Name">>, <<"Phonetic Middle Name">>,
                 <<"Phonetic Last Name">>, <<"Name Prefix">>, <<"Name Suffix">>,
                 <<"Nickname">>, <<"File As">>, <<"Organization Name">>,
                 <<"Organization Title">>, <<"Organization Department">>,
                 <<"Birthday">>, <<"Notes">>, <<"Photo">>, <<"Labels">>,
                 <<"E-mail 1 - Label">>, <<"E-mail 1 - Value">>,
                 <<"E-mail 2 - Label">>, <<"E-mail 2 - Value">>,
                 <<"Phone 1 - Label">>, <<"Phone 1 - Value">> >>)

\* The lines an input file is made of: an empty line, a line of seven plain
\* columns, a row of five fields, a row whose commas are all quoted (one
\* field), and rows of seven and of nine fields with quoted commas, doubled
\* quotes and spaces.
InputLines ==
    { <<>>,
      JoinComma(<< <<"T">>, <<"R">>, <<"F">>, <<"G">>, <<"L">>, <<"C">>, <<"P">> >>),
      JoinComma(<< <<"t">>, <<"r">>, <<"i">>, <<"g", Space, "p">>, <<"l">> >>),
      <<Quote>> \o JoinComma(<< <<"t">>, <<"r">>, <<"i">>, <<"g">>, <<"l">>,
                                <<"n">>, <<"7">> >>) \o <<Quote>>,
      JoinComma(<< <<"t">>, <<"r">>, <<"i">>, <<"g", Space, "p">>, <<"l">>,
                   <<"n">>, <<"7">> >>),
      JoinComma(<< <<>>, <<Quote, "r", Quote>>, <<Quote, "j", Comma, "k", Quote>>,
                   <<"q">>, <<Quote, "m", Quote, Quote, Quote>>, <<>>,
                   <<Space, "8">>, <<"x">>, <<"y">> >>) }

Labels == { <<>>, <<"2", Comma, "4">> }

InputFiles == UNION {[1..k -> InputLines] : k \in 0..MaxLines}

Init ==
    /\ pc = "start"
    /\ MainIdle
    /\ RowIdle
    /\ ScanIdle
    /\ FnIdle

\* argc == 3 or argc == 1: the file names are given or defaulted.
ArgsAcceptedAny(n) == TRUE

ArgsAccepted(n) == n = 3 \/ n = 1

\* The wrong number of arguments: usage, return 1.
CheckArgsBad ==
    /\ pc = "start"
    /\ \E n \in 1..MaxArgc :
          /\ ~ArgsAccepted(n)
          /\ argc' = n
    /\ exit_code' = <<1>>
    /\ pc' = "exit"
    /\ UNCHANGED <<contact_group_label, input_status, output_status, input_file,
                   output_file, is_first_line, line_number, processed_count, branch,
                   reported, rowVars, scanVars, fnVars>>

CheckArgsOk ==
    /\ pc = "start"
    /\ \E n \in 1..MaxArgc :
          /\ ArgsAccepted(n)
          /\ argc' = n
    /\ pc' = "prompt"
    /\ UNCHANGED <<contact_group_label, input_status, output_status, input_file,
                   output_file, is_first_line, line_number, processed_count, branch,
                   reported, exit_code, rowVars, scanVars, fnVars>>

\* std::getline(std::cin, contact_group_label)
ReadLabel ==
    /\ pc = "prompt"
    /\ contact_group_label' \in Labels
    /\ pc' = "open_input"
    /\ UNCHANGED <<argc, input_status, output_status, input_file, output_file,
                   is_first_line, line_number, processed_count, branch, reported,
                   exit_code, rowVars, scanVars, fnVars>>

\* The input file does not open: return 1.
OpenInputFails ==
    /\ pc = "open_input"
    /\ input_status' = "failed"
    /\ exit_code' = <<1>>
    /\ pc' = "exit"
    /\ UNCHANGED <<argc, contact_group_label, output_status, input_file, output_file,
                   is_first_line, line_number, processed_count, branch, reported,
                   rowVars, scanVars, fnVars>>

\* The input file opens; its lines are those of some file.
OpenInputOk ==
    /\ pc = "open_input"
    /\ input_status' = "open"
    /\ input_file' \in InputFiles
    /\ pc' = "open_output"
    /\ UNCHANGED <<argc, contact_group_label, output_status, output_file,
                   is_first_line, line_number, processed_count, branch, reported,
                   exit_code, rowVars, scanVars, fnVars>>

\* The output file does not open: the input file is closed, return 1.
OpenOutputFails ==
    /\ pc = "open_output"
    /\ output_status' = "failed"
    /\ input_status' = "closed"
    /\ exit_code' = <<1>>
    /\ pc' = "exit"
    /\ UNCHANGED <<argc, contact_group_label, input_file, output_file,
                   is_first_line, line_number, processed_count, branch, reported,
                   rowVars, scanVars, fnVars>>

\* The output file opens: the byte order mark and the header line are
\* written and the loop's variables set.
OpenOutputOk ==
    /\ pc = "open_output"
    /\ output_status' = "open"
    /\ output_file' = << <<BOM>> \o output_header >>
    /\ is_first_line' = TRUE
    /\ line_number' = 0
    /\ processed_count' = 0
    /\ pc' = "loop"
    /\ UNCHANGED <<argc, contact_group_label, input_status, input_file, branch,
                   reported, exit_code, rowVars, scanVars, fnVars>>

\* The branch the loop body takes on a line read.
LoopBranchHeaderFirst(ln, first) ==
    IF first
    THEN "header"
    ELSE IF ln = <<>>
         THEN "empty"
         ELSE IF TooFewColumns(parse_csv_line(ln)) THEN "rejected" ELSE "converted"

LoopBranch(ln, first) ==
    IF ln = <<>>
    THEN "empty"
    ELSE IF first
         THEN "header"
         ELSE IF TooFewColumns(parse_csv_line(ln)) THEN "rejected" ELSE "converted"

\* std::getline succeeds: the line read.
NextLine == input_file[line_number + 1]

\* An empty line: a warning, continue.
SkipEmptyLine ==
    /\ pc = "loop"
    /\ line_number < Len(input_file)
    /\ LoopBranch(NextLine, is_first_line) = "empty"
    /\ line_number' = line_number + 1
    /\ branch' = Append(branch, "empty")
    /\ UNCHANGED <<pc, argc, contact_group_label, input_status, output_status,
                   input_file, output_file, is_first_line, processed_count, reported,
                   exit_code, rowVars, scanVars, fnVars>>

\* The first line that is not empty: the header, continue.
SkipHeader ==
    /\ pc = "loop"
    /\ line_number < Len(input_file)
    /\ LoopBranch(NextLine, is_first_line) = "header"
    /\ line_number' = line_number + 1
    /\ is_first_line' = FALSE
    /\ branch' = Append(branch, "header")
    /\ UNCHANGED <<pc, argc, contact_group_label, input_status, output_status,
                   input_file, output_file, processed_count, reported, exit_code,
                   rowVars, scanVars, fnVars>>

\* processed_count after a row with too few columns.
CountAfterRejectBumped(n) == n + 1

CountAfterReject(n) == n

\* A row with too few columns: a warning, continue.
RejectRow ==
    /\ pc = "loop"
    /\ line_number < Len(input_file)
    /\ LoopBranch(NextLine, is_first_line) = "rejected"
    /\ line_number' = line_number + 1
    /\ processed_count' = CountAfterReject(processed_count)
    /\ branch' = Append(branch, "rejected")
    /\ UNCHANGED <<pc, argc, contact_group_label, input_status, output_status,
                   input_file, output_file, is_first_line, reported, exit_code,
                   rowVars, scanVars, fnVars>>

\* output_file << the row's line.
WriteLineFirst(file, ln) == <<file[1], ln>> \o Tail(file)

WriteLine(file, ln) == Append(file, ln)

\* A row: mapped, encoded, written, counted.
ConvertRow ==
    /\ pc = "loop"
    /\ line_number < Len(input_file)
    /\ LoopBranch(NextLine, is_first_line) = "converted"
    /\ line_number' = line_number + 1
    /\ output_file' = WriteLine(output_file,
                         WriteRow(MapRow(parse_csv_line(NextLine), contact_group_label)))
    /\ processed_count' = processed_count + 1
    /\ branch' = Append(branch, "converted")
    /\ UNCHANGED <<pc, argc, contact_group_label, input_status, output_status,
                   input_file, is_first_line, reported, exit_code, rowVars, scanVars,
                   fnVars>>

\* std::getline fails at the end of the file: the count is printed, the
\* files closed, return 0.
Finish ==
    /\ pc = "loop"
    /\ line_number = Len(input_file)
    /\ reported' = <<processed_count>>
    /\ input_status' = "closed"
    /\ output_status' = "closed"
    /\ exit_code' = <<0>>
    /\ pc' = "exit"
    /\ UNCHANGED <<argc, contact_group_label, input_file, output_file, is_first_line,
                   line_number, processed_count, branch, rowVars, scanVars, fnVars>>

Next ==
    \/ CheckArgsBad
    \/ CheckArgsOk
    \/ ReadLabel
    \/ OpenInputFails
    \/ OpenInputOk
    \/ OpenOutputFails
    \/ OpenOutputOk
    \/ SkipEmptyLine
    \/ SkipHeader
    \/ RejectRow
    \/ ConvertRow
    \/ Finish

Spec == Init /\ [][Next]_vars

\* =============================================================== claims

\* ---- helpers of the claims

\* f with every double quote replaced by two.
RECURSIVE DoubleQuotes(_)
DoubleQuotes(f) ==
    IF f = <<>>
    THEN <<>>
    ELSE (IF Head(f) = Quote THEN <<Quote, Quote>> ELSE <<Head(f)>>) \o DoubleQuotes(Tail(f))

\* The tokenizer of the four scanning rules: a quote is an escaped quote
\* only inside a quoted field.
RefStep(ln, s) ==
    LET c == ln[s.pos] IN
    IF c = Quote
    THEN IF s.in_quotes /\ s.pos < Len(ln) /\ ln[s.pos + 1] = Quote
         THEN [s EXCEPT !.field_buffer = Append(@, Quote), !.pos = @ + 2]
         ELSE [s EXCEPT !.in_quotes = ~@, !.pos = @ + 1]
    ELSE IF c = Comma /\ ~s.in_quotes
         THEN [s EXCEPT !.fields = Append(@, s.field_buffer),
                        !.field_buffer = <<>>, !.pos = @ + 1]
         ELSE [s EXCEPT !.field_buffer = Append(@, c), !.pos = @ + 1]

RECURSIVE RefAll(_, _)
RefAll(ln, s) ==
    IF s.pos > Len(ln) THEN Append(s.fields, s.field_buffer) ELSE RefAll(ln, RefStep(ln, s))

RefTokenize(ln) == RefAll(ln, ScanInit)

\* The position of the first line of file that is not empty, or 0.
HeaderIndex(file) ==
    IF \E k \in 1..Len(file) : file[k] # <<>>
    THEN CHOOSE k \in 1..Len(file) :
            file[k] # <<>> /\ \A j \in 1..(k - 1) : file[j] = <<>>
    ELSE 0

\* The lines among the first n of file that are neither empty, nor the
\* header, nor short of seven fields.
AcceptedLines(file, n) ==
    {k \in 1..n : /\ file[k] # <<>>
                  /\ k # HeaderIndex(file)
                  /\ Len(parse_csv_line(file[k])) >= 7}

\* The data lines of the accepted lines among the first n, in their order.
RECURSIVE ExpectedData(_, _, _)
ExpectedData(file, n, label) ==
    IF n = 0
    THEN <<>>
    ELSE ExpectedData(file, n - 1, label)
            \o (IF n \in AcceptedLines(file, n)
                THEN <<WriteRow(MapRow(parse_csv_line(file[n]), label))>>
                ELSE <<>>)

\* The run opened both files.
BothOpened == input_status \in {"open", "closed"} /\ output_status \in {"open", "closed"}

\* ---- C1 (SpecFn)
\* C1: for every string f, parse_csv_line(format_csv_field(f)) is the
\* sequence of exactly one field, and that field is f.
C1_RoundTrip ==
    (pc = "parsed" /\ encoded) => fields = <<field>>

\* ---- C2 (SpecRow)
\* C2: the output row of a row of at least 7 fields has exactly 23 fields:
\* position 0 is input field 2, position 2 is group, a space and lastName
\* when the group split from input field 3 is not empty and lastName
\* otherwise, position 16 is the label, position 18 input field 5, position
\* 20 input field 4, position 22 input field 6, and the other 17 positions
\* are empty; input fields 0, 1 and those past 6 do not influence it.
C2_RowMapping ==
    pc \in {"mapped", "written", "reread"} =>
        LET s == splitGroupLastName(input_fields[4]) IN
        /\ Len(input_fields) >= 7
        /\ Len(output_fields) = 23
        /\ output_fields[1] = input_fields[3]
        /\ output_fields[3] = IF s.group # <<>>
                              THEN s.group \o <<Space>> \o s.lastName
                              ELSE s.lastName
        /\ output_fields[17] = contact_group_label
        /\ output_fields[19] = input_fields[6]
        /\ output_fields[21] = input_fields[5]
        /\ output_fields[23] = input_fields[7]
        /\ \A k \in (1..23) \ {1, 3, 17, 19, 21, 23} : output_fields[k] = <<>>
        /\ \A x \in {<<>>, <<"z">>, <<Quote, Comma, Space>>} :
              /\ MapRow([input_fields EXCEPT ![1] = x], contact_group_label) = output_fields
              /\ MapRow([input_fields EXCEPT ![2] = x], contact_group_label) = output_fields
              /\ MapRow(Append(input_fields, x), contact_group_label) = output_fields
              /\ MapRow(SubSeq(input_fields, 1, 7), contact_group_label) = output_fields

C2_Witness ==
    /\ pc = "mapped"
    /\ Len(input_fields) > 7
    /\ input_fields[1] # <<>>
    /\ splitGroupLastName(input_fields[4]).group # <<>>
    /\ splitGroupLastName(input_fields[4]).lastName # <<>>
    /\ input_fields[5] # input_fields[6]
    /\ output_fields[19] = input_fields[6]

\* ---- C3 (SpecRow)
\* C3: the data line written for an accepted row, read back by
\* parse_csv_line, has exactly 23 fields, whatever commas and double quotes
\* the row's fields and the label hold.
C3_WrittenLineHas23Fields ==
    pc = "reread" => (line = out_line /\ Len(fields) = 23)

C3_Witness ==
    /\ pc = "reread"
    /\ Len(fields) = 23
    /\ \E k \in 1..Len(output_fields) : Comma \in Range(output_fields[k])
    /\ \E k \in 1..Len(output_fields) : Range(output_fields[k]) = {Quote}
    /\ Comma \in Range(contact_group_label)

\* ---- C4 (SpecFn)
\* C4: format_csv_field(f) is f when f holds no comma, no double quote and
\* no newline; otherwise it is a double quote, f with every double quote
\* doubled, and a double quote.
C4_EncoderRule ==
    pc = "formatted" =>
        escaped_field = IF Range(field) \cap {Comma, Quote, Newline} = {}
                        THEN field
                        ELSE <<Quote>> \o DoubleQuotes(field) \o <<Quote>>

C4_Witness ==
    /\ pc = "formatted"
    /\ Quote \in Range(field)
    /\ Comma \in Range(field)
    /\ Len(escaped_field) > Len(field) + 2

C8_NonZeroOnlyOnOpenFailure ==
    pc = "exit" =>
        /\ exit_code # <<0>> <=> (input_status = "failed" \/ output_status = "failed")
        /\ exit_code # <<0>> =>
              (line_number = 0 /\ branch = <<>> /\ output_file = <<>> /\ reported = <<>>)
        /\ exit_code = <<0>> =>
              (line_number = Len(input_file) /\ reported = <<processed_count>>)

\* C8, as amended: the run exits non-zero exactly when the number of
\* command-line arguments is neither none nor two, or the input or the
\* output file fails to open, each before any line is read or any row
\* written; otherwise it reads the input to its end, reports the count and
\* exits 0.
C8_ExitBehaviour ==
    pc = "exit" =>
        /\ exit_code # <<0>> <=>
              (argc \notin {1, 3} \/ input_status = "failed" \/ output_status = "failed")
        /\ exit_code # <<0>> =>
              (line_number = 0 /\ branch = <<>> /\ output_file = <<>> /\ reported = <<>>)
        /\ exit_code = <<0>> =>
              (line_number = Len(input_file) /\ reported = <<processed_count>>)

C8_Witness ==
    /\ pc = "exit"
    /\ exit_code = <<1>>
    /\ argc = 3
    /\ output_status = "failed"
    /\ Len(input_file) > 1

\* ---- C9 (SpecFn)
\* C9: parse_csv_line returns on every line what the tokenizer of the four
\* scanning rules returns: a double quote followed by a double quote is an
\* escaped quote only when the inside-quoted-field flag is set, and toggles
\* the flag otherwise.
C9_TokenizerMatchesReference ==
    (pc = "parsed" /\ Newline \notin Range(line)) => fields = RefTokenize(line)

\* ---- C10 (SpecFn)
\* C10: when s holds a space, group is s before its first space and lastName
\* is s from the first character after it that is no space (empty when only
\* spaces follow); when s holds none, group is empty and lastName is s.  So
\* group holds no space and lastName does not begin with one.
C10_SplitRule ==
    pc = "split" =>
        /\ IF Space \in Range(field)
           THEN \E p \in 1..Len(field) :
                   /\ field[p] = Space
                   /\ \A j \in 1..(p - 1) : field[j] # Space
                   /\ group = [j \in 1..(p - 1) |-> field[j]]
                   /\ IF \A q \in (p + 1)..Len(field) : field[q] = Space
                      THEN lastName = <<>>
                      ELSE \E q \in (p + 1)..Len(field) :
                              /\ field[q] # Space
                              /\ \A j \in (p + 1)..(q - 1) : field[j] = Space
                              /\ lastName = SubSeq(field, q, Len(field))
           ELSE group = <<>> /\ lastName = field
        /\ Space \notin Range(group)
        /\ lastName # <<>> => lastName[1] # Space

C10_Witness ==
    /\ pc = "split"
    /\ group # <<>>
    /\ lastName # <<>>
    /\ Len(group) + Len(lastName) + 1 < Len(field)

====
